---- MODULE Spec2Model ----
(***************************************************************************)
(* A model of the SQL equivalence evaluator: the semantic execution        *)
(* engine (semantic_evaluator.py), the lexical engine                      *)
(* (lexical_evaluator.py) and the structural engine (struct_evaluator.py). *)
(*                                                                         *)
(* The module holds several specifications over one set of variables.      *)
(* Each specification drives one part of the program and leaves the        *)
(* variables of the other parts at their idle values:                      *)
(*   SpecSem    the three semantic metrics on a pair of execution results  *)
(*   SpecExec   execute_query against a driver that may fail at any step   *)
(*   SpecNorm   the two normalize_sql functions on character strings       *)
(*   SpecLev    levenshtein_similarity on a pair of strings                *)
(*   SpecStruct extract_joins, build_graph, graph_similarity and           *)
(*              join_correctness on a pair of queries                      *)
(*   SpecRun    the run loops of the three engines over a corpus           *)
(*   SpecAttr   extract_attributes and lexical_accuracy on a pair of texts *)
(*   SpecExtract extract_tables, extract_joins and build_graph on a query  *)
(***************************************************************************)
EXTENDS Integers, Sequences, FiniteSets, TLC

VARIABLES
    \* semantic metrics (SpecSem)
    result_gold, result_gen, exe_acc, pexec, erd, sem_pc,
    \* execute_query (SpecExec)
    conn, cursor, exec_pc, exec_ret, exec_raised, exec_calls, exec_rows,
    \* normalize_sql (SpecNorm)
    norm_in, norm_lex1, norm_lex2, norm_struct1, norm_struct2, norm_pc,
    \* levenshtein_similarity (SpecLev)
    lev_a, lev_b, lev_sim, lev_pc,
    \* structural metrics (SpecStruct)
    sql_gold, sql_gen, via_pipeline, joins_gold, joins_gen, graph_sim,
    join_acc, struct_pc,
    \* run loops (SpecRun)
    engine, golden_map, generated, idx, results, warnings, run_status,
    report_written, outcomes,
    \* lexical_accuracy (SpecAttr)
    attr_gold, attr_gen, lex_acc, attr_pc,
    \* extract_tables, extract_joins and build_graph on one query (SpecExtract)
    ex_query, ex_pipeline, ex_tables, ex_joins, ex_graph, ex_pc

semVars == <<result_gold, result_gen, exe_acc, pexec, erd, sem_pc>>
execVars == <<conn, cursor, exec_pc, exec_ret, exec_raised, exec_calls, exec_rows>>
normVars == <<norm_in, norm_lex1, norm_lex2, norm_struct1, norm_struct2, norm_pc>>
levVars == <<lev_a, lev_b, lev_sim, lev_pc>>
structVars == <<sql_gold, sql_gen, via_pipeline, joins_gold, joins_gen,
                graph_sim, join_acc, struct_pc>>
runVars == <<engine, golden_map, generated, idx, results, warnings,
             run_status, report_written, outcomes>>
attrVars == <<attr_gold, attr_gen, lex_acc, attr_pc>>
extractVars == <<ex_query, ex_pipeline, ex_tables, ex_joins, ex_graph, ex_pc>>
vars == <<semVars, execVars, normVars, levVars, structVars, runVars, attrVars,
          extractVars>>

\* What the actions of one part leave alone: the variables of the others.
SemFrame ==
    UNCHANGED <<execVars, normVars, levVars, structVars, runVars, attrVars, extractVars>>
ExecFrame ==
    UNCHANGED <<semVars, normVars, levVars, structVars, runVars, attrVars, extractVars>>
NormFrame ==
    UNCHANGED <<semVars, execVars, levVars, structVars, runVars, attrVars, extractVars>>
LevFrame ==
    UNCHANGED <<semVars, execVars, normVars, structVars, runVars, attrVars, extractVars>>
StructFrame ==
    UNCHANGED <<semVars, execVars, normVars, levVars, runVars, attrVars, extractVars>>
AttrFrame ==
    UNCHANGED <<semVars, execVars, normVars, levVars, structVars, runVars,
                extractVars>>
ExtractFrame ==
    UNCHANGED <<semVars, execVars, normVars, levVars, structVars, runVars,
                attrVars>>
RunFrame ==
    UNCHANGED <<semVars, execVars, normVars, levVars, structVars, attrVars, extractVars>>

(***************************************************************************)
(* Numbers.  A Python float that is a quotient of two integers is kept as  *)
(* the fraction [n, d] with d > 0; comparisons cross-multiply.             *)
(***************************************************************************)
Frac(n, d) == [n |-> n, d |-> d]
FracEq(p, q) == p.n * q.d = q.n * p.d
FracLeq(p, q) == p.n * q.d <= q.n * p.d
Zero == Frac(0, 1)
One == Frac(1, 1)

Max(a, b) == IF a >= b THEN a ELSE b
Min(a, b) == IF a <= b THEN a ELSE b
Range(s) == {s[i] : i \in 1..Len(s)}
SeqsUpTo(S, n) == UNION {[1..k -> S] : k \in 0..n}

(***************************************************************************)
(* Execution results: a list of row tuples, or the failure marker None.    *)
(***************************************************************************)
MaxRows == 3
RowValues == {<<1, "x">>, <<2, "y">>, <<3, "z">>, <<4, "w">>}
Rows(r) == [ok |-> TRUE, rows |-> r]
None == [ok |-> FALSE, rows |-> <<>>]
IsNone(r) == ~r.ok
ExecutionResults == {Rows(r) : r \in SeqsUpTo(RowValues, MaxRows)} \cup {None}

\* set(result): the rows of a list as a set.
PySet(r) == Range(r.rows)
\* `not result` for a result that is not None: the list is empty.
Falsy(r) == IsNone(r) \/ Len(r.rows) = 0

execution_accuracy_setwise(gold, gen) ==
    IF IsNone(gold) \/ IsNone(gen) THEN 0
    ELSE IF PySet(gold) = PySet(gen) THEN 1 ELSE 0

\* result_gold == result_gen compares two lists: same length, same rows in
\* the same order.
execution_accuracy(gold, gen) ==
    IF IsNone(gold) \/ IsNone(gen) THEN 0
    ELSE IF gold.rows = gen.rows THEN 1 ELSE 0

\* The shared rows over the length of the golden list.
partial_execution_accuracy_over_list(gold, gen) ==
    IF IsNone(gold) \/ Len(gold.rows) = 0
    THEN (IF Falsy(gen) THEN One ELSE Zero)
    ELSE IF IsNone(gen) THEN Zero
    ELSE Frac(Cardinality(PySet(gold) \cap PySet(gen)), Len(gold.rows))

partial_execution_accuracy(gold, gen) ==
    IF IsNone(gold) \/ Len(gold.rows) = 0
    THEN (IF Falsy(gen) THEN One ELSE Zero)
    ELSE IF IsNone(gen) THEN Zero
    ELSE Frac(Cardinality(PySet(gold) \cap PySet(gen)), Cardinality(PySet(gold)))

\* The Jaccard distance of the row sets, a failure counting as no rows.
execution_result_distance_of_sets(gold, gen) ==
    IF PySet(gold) = {} /\ PySet(gen) = {} THEN Zero
    ELSE LET inter == Cardinality(PySet(gold) \cap PySet(gen))
             union == Cardinality(PySet(gold) \cup PySet(gen))
         IN  Frac(union - inter, union)

execution_result_distance(gold, gen) ==
    IF IsNone(gold) \/ IsNone(gen) THEN One
    ELSE IF PySet(gold) = {} /\ PySet(gen) = {} THEN Zero
    ELSE LET inter == Cardinality(PySet(gold) \cap PySet(gen))
             union == Cardinality(PySet(gold) \cup PySet(gen))
         IN  IF union > 0 THEN Frac(union - inter, union) ELSE One

SemInit ==
    /\ result_gold \in ExecutionResults
    /\ result_gen \in ExecutionResults
    /\ exe_acc = 0
    /\ pexec = Zero
    /\ erd = Zero
    /\ sem_pc = "start"

SemIdle ==
    /\ result_gold = None
    /\ result_gen = None
    /\ exe_acc = 0
    /\ pexec = Zero
    /\ erd = Zero
    /\ sem_pc = "idle"

\* The three metric calls of evaluate_semantic on one pair of results.
ComputeSemantic ==
    /\ sem_pc = "start"
    /\ exe_acc' = execution_accuracy(result_gold, result_gen)
    /\ pexec' = partial_execution_accuracy(result_gold, result_gen)
    /\ erd' = execution_result_distance(result_gold, result_gen)
    /\ sem_pc' = "done"
    /\ UNCHANGED <<result_gold, result_gen>>
    /\ SemFrame

(***************************************************************************)
(* execute_query.  The driver (mysql.connector) is the environment: each   *)
(* of connect, cursor, execute and fetchall either succeeds or raises a    *)
(* subclass of mysql.connector.Error.  conn and cursor count the open      *)
(* connections and cursors; a `with` block closes its resource when it is  *)
(* left, by return or by exception.                                        *)
(***************************************************************************)
MaxCalls == 3

\* The exceptions the handler `except Error:` catches.
Catches(exc) == exc = "Error"

\* The connection is not closed when its block is left.
ExitConnLeaks(n) == n

\* Leaving `with connect(...) as conn` closes the connection.
ExitConn(n) == n - 1

\* Leaving `with conn.cursor() as cursor` closes the cursor.
ExitCursor(n) == n - 1

ExecInit ==
    /\ conn = 0
    /\ cursor = 0
    /\ exec_pc = "idle"
    /\ exec_ret = None
    /\ exec_raised = "none"
    /\ exec_calls = 0
    /\ exec_rows = <<>>

ExecIdle ==
    /\ conn = 0
    /\ cursor = 0
    /\ exec_pc = "off"
    /\ exec_ret = None
    /\ exec_raised = "none"
    /\ exec_calls = 0
    /\ exec_rows = <<>>

\* A caller enters execute_query(db_config, sql).
ExecCall ==
    /\ exec_pc \in {"idle", "returned"}
    /\ exec_calls < MaxCalls
    /\ exec_calls' = exec_calls + 1
    /\ exec_pc' = "connect"
    /\ exec_raised' = "none"
    /\ exec_rows' = <<>>
    /\ UNCHANGED <<conn, cursor, exec_ret>>
    /\ ExecFrame

\* connect(**db_config) succeeds and the with block is entered.
ExecConnectOk ==
    /\ exec_pc = "connect"
    /\ conn' = conn + 1
    /\ exec_pc' = "cursor"
    /\ UNCHANGED <<cursor, exec_ret, exec_raised, exec_calls, exec_rows>>
    /\ ExecFrame

\* connect(**db_config) raises: no connection was opened.
ExecConnectFails ==
    /\ exec_pc = "connect"
    /\ exec_raised' = "Error"
    /\ exec_pc' = "except"
    /\ UNCHANGED <<conn, cursor, exec_ret, exec_calls, exec_rows>>
    /\ ExecFrame

\* conn.cursor() succeeds and the inner with block is entered.
ExecCursorOk ==
    /\ exec_pc = "cursor"
    /\ cursor' = cursor + 1
    /\ exec_pc' = "execute"
    /\ UNCHANGED <<conn, exec_ret, exec_raised, exec_calls, exec_rows>>
    /\ ExecFrame

\* conn.cursor() raises: the outer with block is left by the exception.
ExecCursorFails ==
    /\ exec_pc = "cursor"
    /\ exec_raised' = "Error"
    /\ conn' = ExitConn(conn)
    /\ exec_pc' = "except"
    /\ UNCHANGED <<cursor, exec_ret, exec_calls, exec_rows>>
    /\ ExecFrame

\* cursor.execute(sql) succeeds.
ExecExecuteOk ==
    /\ exec_pc = "execute"
    /\ exec_pc' = "fetch"
    /\ UNCHANGED <<conn, cursor, exec_ret, exec_raised, exec_calls, exec_rows>>
    /\ ExecFrame

\* cursor.execute(sql) raises: both with blocks are left by the exception.
ExecExecuteFails ==
    /\ exec_pc = "execute"
    /\ exec_raised' = "Error"
    /\ cursor' = ExitCursor(cursor)
    /\ conn' = ExitConn(conn)
    /\ exec_pc' = "except"
    /\ UNCHANGED <<exec_ret, exec_calls, exec_rows>>
    /\ ExecFrame

\* cursor.fetchall() returns rows; `return [tuple(r) for r in rows]` leaves
\* both with blocks.
ExecFetchOk ==
    /\ exec_pc = "fetch"
    /\ \E r \in SeqsUpTo(RowValues, MaxRows) :
          /\ exec_rows' = r
          /\ exec_ret' = Rows(r)
    /\ cursor' = ExitCursor(cursor)
    /\ conn' = ExitConn(conn)
    /\ exec_pc' = "returned"
    /\ UNCHANGED <<exec_raised, exec_calls>>
    /\ ExecFrame

\* cursor.fetchall() raises (for instance no result set to fetch from).
ExecFetchFails ==
    /\ exec_pc = "fetch"
    /\ exec_raised' = "Error"
    /\ cursor' = ExitCursor(cursor)
    /\ conn' = ExitConn(conn)
    /\ exec_pc' = "except"
    /\ UNCHANGED <<exec_ret, exec_calls, exec_rows>>
    /\ ExecFrame

\* The try statement's handler: `except Error: return None`; an exception
\* the handler does not catch leaves execute_query.
ExecHandle ==
    /\ exec_pc = "except"
    /\ IF Catches(exec_raised)
       THEN /\ exec_ret' = None
            /\ exec_raised' = "none"
            /\ exec_pc' = "returned"
       ELSE /\ exec_pc' = "propagated"
            /\ UNCHANGED <<exec_ret, exec_raised>>
    /\ UNCHANGED <<conn, cursor, exec_calls, exec_rows>>
    /\ ExecFrame

ExecNext ==
    \/ ExecCall
    \/ ExecConnectOk
    \/ ExecConnectFails
    \/ ExecCursorOk
    \/ ExecCursorFails
    \/ ExecExecuteOk
    \/ ExecExecuteFails
    \/ ExecFetchOk
    \/ ExecFetchFails
    \/ ExecHandle

(***************************************************************************)
(* Strings are sequences of one-character strings.  The regular            *)
(* expressions of normalize_sql are modelled by what re.sub does: it       *)
(* scans from the left and replaces non-overlapping matches.               *)
(***************************************************************************)
\* The backquote character (written BQ: a string of the module cannot hold it).
Backtick == "BQ"
IsSpace(c) == c \in {" ", "\t", "\n"}
IsLowerWordChar(c) == c \in {"a", "s", "x", "y", "b", "c", "1", "_"}
IsIdentStart(c) == c \in {"a", "s", "x", "y", "b", "c", "_", "A"}
IsWordChar(c) == IsIdentStart(c) \/ c = "1"

\* str.lower(), on the letters of the model's alphabet.
LowerChar(c) == IF c = "A" THEN "a" ELSE c
Lower(s) == [i \in 1..Len(s) |-> LowerChar(s[i])]

\* re.sub(c, '', s) for a one-character pattern c.
RemoveChar(s, c) == SelectSeq(s, LAMBDA x : x # c)

\* re.sub(r'\s+', ' ', s): every maximal run of whitespace becomes one space.
RECURSIVE CollapseWhitespace(_)
CollapseWhitespace(s) ==
    IF s = <<>> THEN <<>>
    ELSE IF IsSpace(Head(s))
         THEN IF Len(s) > 1 /\ IsSpace(s[2])
              THEN CollapseWhitespace(Tail(s))
              ELSE <<" ">> \o CollapseWhitespace(Tail(s))
         ELSE <<Head(s)>> \o CollapseWhitespace(Tail(s))

\* re.sub(r' as ', ' ', s): a match consumes both of its spaces, so the
\* scan goes on after the closing space.
RECURSIVE RemoveAs(_)
RemoveAs(s) ==
    IF s = <<>> THEN <<>>
    ELSE IF Len(s) >= 4 /\ SubSeq(s, 1, 4) = <<" ", "a", "s", " ">>
         THEN <<" ">> \o RemoveAs(SubSeq(s, 5, Len(s)))
         ELSE <<Head(s)>> \o RemoveAs(Tail(s))

\* The length of the longest prefix of s made of [a-z0-9_] characters.
RECURSIVE WordRun(_)
WordRun(s) ==
    IF s = <<>> \/ ~IsLowerWordChar(Head(s)) THEN 0 ELSE 1 + WordRun(Tail(s))

\* The length of the longest prefix of s made of whitespace.
RECURSIVE SpaceRun(_)
SpaceRun(s) ==
    IF s = <<>> \/ ~IsSpace(Head(s)) THEN 0 ELSE 1 + SpaceRun(Tail(s))

\* re.sub(r'([a-z0-9_]+)\s*\.', '', s): a run of word characters, optional
\* whitespace and a dot are removed together.
RECURSIVE StripQualifiers(_)
StripQualifiers(s) ==
    IF s = <<>> THEN <<>>
    ELSE LET w == WordRun(s)
             rest == SubSeq(s, w + 1, Len(s))
             sp == SpaceRun(rest)
         IN  IF w > 0 /\ Len(rest) > sp /\ rest[sp + 1] = "."
             THEN StripQualifiers(SubSeq(rest, sp + 2, Len(rest)))
             ELSE <<Head(s)>> \o StripQualifiers(Tail(s))

\* str.strip()
RECURSIVE LStrip(_)
LStrip(s) == IF s # <<>> /\ IsSpace(Head(s)) THEN LStrip(Tail(s)) ELSE s
RECURSIVE RStrip(_)
RStrip(s) ==
    IF s # <<>> /\ IsSpace(s[Len(s)]) THEN RStrip(SubSeq(s, 1, Len(s) - 1)) ELSE s
Strip(s) == RStrip(LStrip(s))

\* normalize_sql of the lexical engine.
lexical_normalize_sql(sql) ==
    Strip(RemoveChar(StripQualifiers(RemoveAs(CollapseWhitespace(
        RemoveChar(Lower(sql), Backtick)))), ";"))

\* normalize_sql of the structural engine: no qualifier stripping.
struct_normalize_sql(sql) ==
    Strip(RemoveChar(RemoveAs(CollapseWhitespace(
        RemoveChar(Lower(sql), Backtick))), ";"))

MaxNormLen == 4
NormAlphabet == {"a", "s", "A", " ", ";", ".", Backtick}
\* Longer inputs: repeated as, a terminator inside as, a terminator
\* between spaces, a qualifier chain, a terminator next to a dot.
NormSamples ==
    { <<"x", " ", "a", "s", " ", "a", "s", " ", "y">>,
      <<"x", " ", "a", ";", "s", " ", "y">>,
      <<"a", " ", ";", " ", "b">>,
      <<"a", ".", "b", ".", "c">>,
      <<"a", " ", ".", " ", "b">> }
NormInputs == SeqsUpTo(NormAlphabet, MaxNormLen) \cup NormSamples

NormInit ==
    /\ norm_in \in NormInputs
    /\ norm_lex1 = <<>>
    /\ norm_lex2 = <<>>
    /\ norm_struct1 = <<>>
    /\ norm_struct2 = <<>>
    /\ norm_pc = "start"

NormIdle ==
    /\ norm_in = <<>>
    /\ norm_lex1 = <<>>
    /\ norm_lex2 = <<>>
    /\ norm_struct1 = <<>>
    /\ norm_struct2 = <<>>
    /\ norm_pc = "idle"

\* Each normalizer is applied to the input and then to its own output.
ComputeNormalize ==
    /\ norm_pc = "start"
    /\ norm_lex1' = lexical_normalize_sql(norm_in)
    /\ norm_lex2' = lexical_normalize_sql(lexical_normalize_sql(norm_in))
    /\ norm_struct1' = struct_normalize_sql(norm_in)
    /\ norm_struct2' = struct_normalize_sql(struct_normalize_sql(norm_in))
    /\ norm_pc' = "done"
    /\ UNCHANGED norm_in
    /\ NormFrame

(***************************************************************************)
(* levenshtein_similarity.  levenshtein_distance is the library's edit     *)
(* distance: insertions, deletions and substitutions, each of cost 1.      *)
(***************************************************************************)
RECURSIVE levenshtein_distance(_, _)
levenshtein_distance(a, b) ==
    IF a = <<>> THEN Len(b)
    ELSE IF b = <<>> THEN Len(a)
    ELSE IF Head(a) = Head(b) THEN levenshtein_distance(Tail(a), Tail(b))
    ELSE 1 + Min(levenshtein_distance(Tail(a), Tail(b)),
                 Min(levenshtein_distance(Tail(a), b),
                     levenshtein_distance(a, Tail(b))))

\* The distance is divided by the shorter length.
levenshtein_similarity_min(a, b) ==
    IF a = <<>> \/ b = <<>> THEN Zero
    ELSE Frac(Min(Len(a), Len(b)) - levenshtein_distance(a, b),
              Min(Len(a), Len(b)))

\* 1 - dist / max(len(a), len(b)), and 0.0 when either string is empty.
levenshtein_similarity(a, b) ==
    IF a = <<>> \/ b = <<>> THEN Zero
    ELSE Frac(Max(Len(a), Len(b)) - levenshtein_distance(a, b),
              Max(Len(a), Len(b)))

MaxLevLen == 3
LevAlphabet == {"a", "b", " "}
LevInputs == SeqsUpTo(LevAlphabet, MaxLevLen)

LevInit ==
    /\ lev_a \in LevInputs
    /\ lev_b \in LevInputs
    /\ lev_sim = Zero
    /\ lev_pc = "start"

LevIdle ==
    /\ lev_a = <<>>
    /\ lev_b = <<>>
    /\ lev_sim = Zero
    /\ lev_pc = "idle"

ComputeLevenshtein ==
    /\ lev_pc = "start"
    /\ lev_sim' = levenshtein_similarity(lev_a, lev_b)
    /\ lev_pc' = "done"
    /\ UNCHANGED <<lev_a, lev_b>>
    /\ LevFrame

(***************************************************************************)
(* The structural engine.  A query is a sequence of tokens written with    *)
(* one space between them; a qualified column q.c is one token.  The       *)
(* regular expressions of extract_tables and extract_joins are modelled    *)
(* on tokens by what re.findall does: it scans from the left and goes on   *)
(* after the end of each match.  The identifiers of the model contain      *)
(* none of the words join, on, where, from and as.                         *)
(***************************************************************************)
Tok(k, q, v) == [k |-> k, q |-> q, v |-> v]
Kw(w) == Tok("kw", "", w)
Id(n) == Tok("id", "", n)
QCol(q, c) == Tok("qcol", q, c)
Op(o) == Tok("op", "", o)
Lit(n) == Tok("lit", "", n)
Semi == Tok("semi", "", ";")

\* The token starts with an identifier ([a-zA-Z_][a-zA-Z0-9_]*) ...
IdentLike(t) == t.k \in {"kw", "id", "qcol"}
\* ... and this is the identifier the pattern captures there.
IdentText(t) == IF t.k = "qcol" THEN t.q ELSE t.v

\* normalize_sql of the structural engine, on tokens: ' as ' between two
\* tokens is removed (a match consumes the space before the next token, so
\* an as right after a removed as stays), and every ';' is removed.
RECURSIVE RemoveAsTokens(_, _, _)
RemoveAsTokens(toks, i, prevRemoved) ==
    IF i > Len(toks) THEN <<>>
    ELSE IF toks[i] = Kw("as") /\ i > 1 /\ i < Len(toks) /\ ~prevRemoved
         THEN RemoveAsTokens(toks, i + 1, TRUE)
         ELSE <<toks[i]>> \o RemoveAsTokens(toks, i + 1, FALSE)

struct_normalize_tokens(toks) ==
    SelectSeq(RemoveAsTokens(toks, 1, FALSE), LAMBDA t : t # Semi)

\* A dict in insertion order: a sequence of <<key, value>> with distinct keys.
DictKeys(d) == {d[i][1] : i \in 1..Len(d)}
DictGet(d, k, default) ==
    IF k \in DictKeys(d)
    THEN d[CHOOSE i \in 1..Len(d) : d[i][1] = k][2]
    ELSE default
\* d[k] = v: an existing key keeps its place, a new key goes last.
DictSet(d, k, v) ==
    IF k \in DictKeys(d)
    THEN [i \in 1..Len(d) |-> IF d[i][1] = k THEN <<k, v>> ELSE d[i]]
    ELSE Append(d, <<k, v>>)

\* extract_tables: (?:from|join)\s+(ident)(?:\s+as\s+(ident))?
RECURSIVE TablesFrom(_, _, _)
TablesFrom(toks, i, table_map) ==
    IF i > Len(toks) THEN table_map
    ELSE IF toks[i] \in {Kw("from"), Kw("join")} /\ i < Len(toks)
            /\ IdentLike(toks[i + 1])
         THEN LET table_name == IdentText(toks[i + 1])
                  hasAlias == /\ toks[i + 1].k # "qcol"
                              /\ i + 3 <= Len(toks)
                              /\ toks[i + 2] = Kw("as")
                              /\ IdentLike(toks[i + 3])
              IN  IF hasAlias
                  THEN TablesFrom(toks, i + 4,
                           DictSet(table_map, IdentText(toks[i + 3]), table_name))
                  ELSE TablesFrom(toks, i + 2,
                           DictSet(table_map, table_name, table_name))
         ELSE TablesFrom(toks, i + 1, table_map)

extract_tables(sql) == TablesFrom(sql, 1, <<>>)

\* Python values: a str, or a tuple of values.  == holds between values of
\* the same type only; x in t asks whether t has an element equal to x.
PyStr(x) == [ty |-> "str", val |-> <<x>>]
PyTuple(xs) == [ty |-> "tuple", val |-> xs]
PyEq(x, y) == x.ty = y.ty /\ x.val = y.val
PyIn(x, t) == \E i \in 1..Len(t.val) : PyEq(t.val[i], x)

\* The pairs of one ON block: (ident).ident\s*=\s*(ident).ident
RECURSIVE PairsFrom(_, _)
PairsFrom(jb, i) ==
    IF i > Len(jb) THEN <<>>
    ELSE IF /\ i + 2 <= Len(jb)
            /\ jb[i].k = "qcol"
            /\ jb[i + 1] = Op("=")
            /\ jb[i + 2].k = "qcol"
         THEN <<PyTuple(<<PyStr(jb[i].q), PyStr(jb[i + 2].q)>>)>>
                  \o PairsFrom(jb, i + 3)
         ELSE PairsFrom(jb, i + 1)

IsTerminator(t) == t \in {Kw("join"), Kw("where")}

\* The end of the block that starts after the on at position o: the token
\* before the first ' join' or ' where', or the last token.  ([^;]+? takes
\* at least the block's first token.)
BlockEnd(toks, o) ==
    LET T == {t \in (o + 2)..Len(toks) : IsTerminator(toks[t])}
    IN  IF T = {} THEN Len(toks)
        ELSE (CHOOSE t \in T : \A u \in T : t <= u) - 1

\* The positions of an on that can close  join\s+ident.*?on\s+([^;]+?)
\* for the join at position p: a block follows, with no ';' in it.
OnCandidates(toks, p) ==
    {o \in (p + 2)..(Len(toks) - 1) :
        /\ toks[o] = Kw("on")
        /\ \A t \in (o + 1)..BlockEnd(toks, o) : toks[t] # Semi}

\* The join blocks found from position p on.  A match ends after its
\* terminator (\s+join, \s+where or the end), and the scan goes on there.
RECURSIVE JoinBlocksFrom(_, _)
JoinBlocksFrom(toks, p) ==
    IF p > Len(toks) THEN <<>>
    ELSE IF /\ toks[p] = Kw("join")
            /\ p < Len(toks)
            /\ IdentLike(toks[p + 1])
            /\ OnCandidates(toks, p) # {}
         THEN LET O == OnCandidates(toks, p)
                  o == CHOOSE x \in O : \A y \in O : x <= y
                  e == BlockEnd(toks, o)
              IN  <<SubSeq(toks, o + 1, e)>> \o JoinBlocksFrom(toks, e + 2)
         ELSE JoinBlocksFrom(toks, p + 1)

RECURSIVE ConcatPairs(_)
ConcatPairs(join_blocks) ==
    IF join_blocks = <<>> THEN <<>>
    ELSE PairsFrom(Head(join_blocks), 1) \o ConcatPairs(Tail(join_blocks))

extract_joins(sql) == ConcatPairs(JoinBlocksFrom(sql, 1))

\* networkx.Graph: the nodes in insertion order, the edges as unordered
\* pairs.
EmptyGraph == [nodes |-> <<>>, edges |-> {}]
add_node(G, n) ==
    IF n \in Range(G.nodes) THEN G ELSE [G EXCEPT !.nodes = Append(@, n)]
add_edge(G, u, v) ==
    [add_node(add_node(G, u), v) EXCEPT !.edges = @ \cup {{u, v}}]

RECURSIVE AddNodes(_, _, _)
AddNodes(G, table_map, i) ==
    IF i > Len(table_map) THEN G
    ELSE AddNodes(add_node(G, table_map[i][2]), table_map, i + 1)

RECURSIVE AddJoins(_, _, _, _)
AddJoins(G, table_map, joins, i) ==
    IF i > Len(joins) THEN G
    ELSE LET a == joins[i].val[1].val[1]
             b == joins[i].val[2].val[1]
             real_a == DictGet(table_map, a, a)
             real_b == DictGet(table_map, b, b)
         IN  AddJoins(IF real_a # real_b THEN add_edge(G, real_a, real_b) ELSE G,
                      table_map, joins, i + 1)

build_graph(sql) ==
    LET table_map == extract_tables(sql)
    IN  AddJoins(AddNodes(EmptyGraph, table_map, 1), table_map,
                 extract_joins(sql), 1)

\* G.edges() of an undirected graph: each edge once, as the tuple (u, v)
\* with u the endpoint that comes first in the graph's node order.
EdgeView(G) ==
    {<<G.nodes[p[1]], G.nodes[p[2]]>> :
        p \in {q \in (1..Len(G.nodes)) \X (1..Len(G.nodes)) :
                  q[1] < q[2] /\ {G.nodes[q[1]], G.nodes[q[2]]} \in G.edges}}

\* round(n / d, 4), as a fraction over 10000 (ties go to the even digit).
Round4(n, d) ==
    LET q == (10000 * n) \div d
        r == (10000 * n) % d
    IN  Frac(IF 2 * r < d THEN q
             ELSE IF 2 * r > d THEN q + 1
             ELSE IF q % 2 = 0 THEN q ELSE q + 1, 10000)

graph_similarity(sql1, sql2) ==
    LET E1 == EdgeView(build_graph(sql1))
        E2 == EdgeView(build_graph(sql2))
    IN  IF E1 = {} /\ E2 = {} THEN One
        ELSE Round4(Cardinality(E1 \cap E2), Cardinality(E1 \cup E2))

\* any(j2 in j or j in j2 for j2 in joins2): tuple membership.
JoinMatches(j, joins2) ==
    \E k \in 1..Len(joins2) : PyIn(joins2[k], j) \/ PyIn(j, joins2[k])

join_correctness(sql1, sql2) ==
    LET joins1 == extract_joins(sql1)
        joins2 == extract_joins(sql2)
        matches == Cardinality({k \in 1..Len(joins1) : JoinMatches(joins1[k], joins2)})
    IN  IF joins1 = <<>>
        THEN (IF joins2 = <<>> THEN One ELSE Zero)
        ELSE Round4(matches, Len(joins1))

(***************************************************************************)
(* The queries of the model:                                               *)
(*   select * from T [as a] { join T [as b] <condition> } [where q.z = 1]  *)
(* with one condition form per join.                                       *)
(***************************************************************************)
MaxJoins == 1
Tables == {"t", "u"}
Aliases == <<"a", "b", "c", "d">>
Forms == {"fwd", "rev", "two", "unq", "lit", "using"}

JoinSpecs == [tbl : Tables, form : Forms]
\* The queries with at most n joins.
QuerySpecsUpTo(n) ==
    [aliased : BOOLEAN, from : Tables, joins : SeqsUpTo(JoinSpecs, n),
     where : BOOLEAN]
QuerySpecs == QuerySpecsUpTo(MaxJoins)

\* The table of the i-th table reference (0: FROM, k: the k-th JOIN).
RefTable(qs, i) == IF i = 0 THEN qs.from ELSE qs.joins[i].tbl
\* The name its columns are qualified with.
RefQual(qs, i) == IF qs.aliased THEN Aliases[i + 1] ELSE RefTable(qs, i)
RenderRef(qs, i) ==
    IF qs.aliased
    THEN <<Id(RefTable(qs, i)), Kw("as"), Id(Aliases[i + 1])>>
    ELSE <<Id(RefTable(qs, i))>>

RenderCond(form, prev, cur) ==
    CASE form = "fwd" -> <<Kw("on"), QCol(prev, "x"), Op("="), QCol(cur, "x")>>
      [] form = "rev" -> <<Kw("on"), QCol(cur, "x"), Op("="), QCol(prev, "x")>>
      [] form = "two" -> <<Kw("on"), QCol(prev, "x"), Op("="), QCol(cur, "x"),
                           Kw("and"), QCol(prev, "y"), Op("="), QCol(cur, "y")>>
      [] form = "unq" -> <<Kw("on"), Id("x"), Op("="), Id("y")>>
      [] form = "lit" -> <<Kw("on"), QCol(cur, "x"), Op("="), Lit("1")>>
      [] form = "using" -> <<Kw("using"), Op("("), Id("x"), Op(")")>>

RECURSIVE RenderJoins(_, _)
RenderJoins(qs, i) ==
    IF i > Len(qs.joins) THEN <<>>
    ELSE <<Kw("join")>> \o RenderRef(qs, i)
         \o RenderCond(qs.joins[i].form, RefQual(qs, i - 1), RefQual(qs, i))
         \o RenderJoins(qs, i + 1)

Render(qs) ==
    <<Kw("select"), Op("*"), Kw("from")>> \o RenderRef(qs, 0)
    \o RenderJoins(qs, 1)
    \o (IF qs.where
        THEN <<Kw("where"), QCol(RefQual(qs, 0), "z"), Op("="), Lit("1")>>
        ELSE <<>>)

Queries == {Render(qs) : qs \in QuerySpecs}

StructInit ==
    /\ sql_gold \in Queries
    /\ sql_gen \in Queries
    /\ via_pipeline \in BOOLEAN
    /\ joins_gold = <<>>
    /\ joins_gen = <<>>
    /\ graph_sim = Zero
    /\ join_acc = Zero
    /\ struct_pc = "start"

StructIdle ==
    /\ sql_gold = <<>>
    /\ sql_gen = <<>>
    /\ via_pipeline = FALSE
    /\ joins_gold = <<>>
    /\ joins_gen = <<>>
    /\ graph_sim = Zero
    /\ join_acc = Zero
    /\ struct_pc = "idle"

\* The queries as the metrics receive them: normalized first in
\* evaluate_structural_metrics, as they are in a direct call.
GoldArg == IF via_pipeline THEN struct_normalize_tokens(sql_gold) ELSE sql_gold
GenArg == IF via_pipeline THEN struct_normalize_tokens(sql_gen) ELSE sql_gen

ComputeStructural ==
    /\ struct_pc = "start"
    /\ joins_gold' = extract_joins(GoldArg)
    /\ joins_gen' = extract_joins(GenArg)
    /\ graph_sim' = graph_similarity(GoldArg, GenArg)
    /\ join_acc' = join_correctness(GoldArg, GenArg)
    /\ struct_pc' = "done"
    /\ UNCHANGED <<sql_gold, sql_gen, via_pipeline>>
    /\ StructFrame

(***************************************************************************)
(* The run loops: evaluate_lexical_metrics, evaluate_structural_metrics    *)
(* and evaluate_semantic.  golden_map and generated are the state after    *)
(* the two files are loaded.  An exception that leaves the function ends   *)
(* the run in status "error"; nothing is written then.                     *)
(***************************************************************************)
MaxGen == 2
Qids == {1, 2}
Engines == {"lexical", "structural", "semantic"}
\* '', ' ', ';', '1' and 'a'
RunSqls == {<<>>, <<" ">>, <<";">>, <<"1">>, <<"a">>}
Absent == [present |-> FALSE, sql |-> <<>>]
Golden(sql) == [present |-> TRUE, sql |-> sql]
GoldenMaps == [Qids -> {Absent} \cup {Golden(sql) : sql \in RunSqls}]
GeneratedItems == [question_id : Qids, SQL_generated : RunSqls]
\* What the database returns for a query of the run.
RunOutcomes == {None} \cup {Rows(r) : r \in SeqsUpTo(RowValues, 1)}

\* `not gold_sql` for gold_sql = golden_map.get(qid): None or ''.
NotGoldSql(g) == ~g.present \/ g.sql = <<>>

\* The text has a match of the token pattern \b[a-zA-Z_][a-zA-Z0-9_]*\b.
HasToken(s) ==
    \E i \in 1..Len(s) :
        IsIdentStart(s[i]) /\ (i = 1 \/ ~IsWordChar(s[i - 1]))

\* cosine_similarity_text: TfidfVectorizer.fit_transform raises ValueError
\* (empty vocabulary) when neither document has a token.
CosineRaises(a, b) == ~HasToken(a) /\ ~HasToken(b)

\* tree_matching_similarity: sqlparse.parse('') is the empty tuple, and
\* parsed[0] then raises IndexError.
TreeMatchingRaises(sql1, sql2) == sql1 = <<>> \/ sql2 = <<>>

\* Whether the body of the loop raises for this pair.
BodyRaises(eng, gold_sql, gen_sql) ==
    CASE eng = "lexical" ->
            CosineRaises(lexical_normalize_sql(gold_sql),
                         lexical_normalize_sql(gen_sql))
      [] eng = "structural" ->
            TreeMatchingRaises(struct_normalize_sql(gold_sql),
                               struct_normalize_sql(gen_sql))
      [] eng = "semantic" -> FALSE

\* Only evaluate_semantic prints a warning when it skips a pair.
WarnsOnSkip(eng) == eng = "semantic"

\* sum(...) / len(results) of the lexical and the structural engine raises
\* ZeroDivisionError on an empty list; evaluate_semantic computes no mean.
ReportRaises(eng, res) == eng \in {"lexical", "structural"} /\ res = <<>>

RunInit ==
    /\ engine \in Engines
    /\ golden_map \in GoldenMaps
    /\ generated \in SeqsUpTo(GeneratedItems, MaxGen)
    /\ idx = 1
    /\ results = <<>>
    /\ warnings = 0
    /\ run_status = "loop"
    /\ report_written = FALSE
    /\ outcomes = <<>>

RunIdle ==
    /\ engine = "none"
    /\ golden_map = <<>>
    /\ generated = <<>>
    /\ idx = 1
    /\ results = <<>>
    /\ warnings = 0
    /\ run_status = "idle"
    /\ report_written = FALSE
    /\ outcomes = <<>>

\* One iteration: the pair has no golden SQL and is skipped.
RunSkip ==
    /\ run_status = "loop"
    /\ idx <= Len(generated)
    /\ NotGoldSql(golden_map[generated[idx].question_id])
    /\ warnings' = IF WarnsOnSkip(engine) THEN warnings + 1 ELSE warnings
    /\ outcomes' = Append(outcomes, "skipped")
    /\ idx' = idx + 1
    /\ UNCHANGED <<engine, golden_map, generated, results, run_status,
                   report_written>>
    /\ RunFrame

\* One iteration: the metrics are computed and a record is appended.
RunRecord ==
    /\ run_status = "loop"
    /\ idx <= Len(generated)
    /\ LET item == generated[idx]
           gold == golden_map[item.question_id]
       IN  /\ ~NotGoldSql(gold)
           /\ ~BodyRaises(engine, gold.sql, item.SQL_generated)
           /\ IF engine = "semantic"
              THEN \E gold_result \in RunOutcomes, gen_result \in RunOutcomes :
                      results' = Append(results,
                          [question_id |-> item.question_id,
                           execution_accuracy |->
                               execution_accuracy(gold_result, gen_result)])
              ELSE results' = Append(results, [question_id |-> item.question_id])
    /\ outcomes' = Append(outcomes, "record")
    /\ idx' = idx + 1
    /\ UNCHANGED <<engine, golden_map, generated, warnings, run_status,
                   report_written>>
    /\ RunFrame

\* One iteration: a metric raises and the exception leaves the function.
RunAbort ==
    /\ run_status = "loop"
    /\ idx <= Len(generated)
    /\ LET item == generated[idx]
           gold == golden_map[item.question_id]
       IN  /\ ~NotGoldSql(gold)
           /\ BodyRaises(engine, gold.sql, item.SQL_generated)
    /\ run_status' = "error"
    /\ UNCHANGED <<engine, golden_map, generated, idx, results, warnings,
                   report_written, outcomes>>
    /\ RunFrame

\* After the loop: the mean (lexical, structural) and the report file.
RunReport ==
    /\ run_status = "loop"
    /\ idx > Len(generated)
    /\ IF ReportRaises(engine, results)
       THEN /\ run_status' = "error"
            /\ UNCHANGED report_written
       ELSE /\ run_status' = "done"
            /\ report_written' = TRUE
    /\ UNCHANGED <<engine, golden_map, generated, idx, results, warnings,
                   outcomes>>
    /\ RunFrame

(***************************************************************************)
(* extract_attributes and lexical_accuracy, on character strings.          *)
(***************************************************************************)
\* The length of the longest prefix of s made of [a-zA-Z0-9_] characters.
RECURSIVE IdentRun(_)
IdentRun(s) ==
    IF s = <<>> \/ ~IsWordChar(Head(s)) THEN 0 ELSE 1 + IdentRun(Tail(s))

\* re.findall(r'\b[a-zA-Z_][a-zA-Z0-9_]*\b', s): a token starts at a letter
\* or underscore that no word character precedes, and runs to the end of
\* the word.
RECURSIVE FindTokens(_, _)
FindTokens(s, i) ==
    IF i > Len(s) THEN <<>>
    ELSE IF IsIdentStart(s[i]) /\ (i = 1 \/ ~IsWordChar(s[i - 1]))
         THEN LET n == IdentRun(SubSeq(s, i, Len(s)))
              IN  <<SubSeq(s, i, i + n - 1)>> \o FindTokens(s, i + n)
         ELSE FindTokens(s, i + 1)

\* The closed list of reserved words of extract_attributes.
reserved ==
    {
      <<"s", "e", "l", "e", "c", "t">>, <<"f", "r", "o", "m">>,
      <<"w", "h", "e", "r", "e">>, <<"a", "n", "d">>,
      <<"o", "r">>, <<"j", "o", "i", "n">>,
      <<"o", "n">>, <<"a", "s">>,
      <<"s", "u", "m">>, <<"c", "o", "u", "n", "t">>,
      <<"a", "v", "g">>, <<"m", "i", "n">>,
      <<"m", "a", "x">>, <<"g", "r", "o", "u", "p">>,
      <<"b", "y">>, <<"o", "r", "d", "e", "r">>,
      <<"l", "i", "m", "i", "t">>, <<"i", "n", "n", "e", "r">>,
      <<"l", "e", "f", "t">>, <<"r", "i", "g", "h", "t">>,
      <<"o", "u", "t", "e", "r">>, <<"c", "a", "s", "t">>,
      <<"c", "a", "s", "e">>, <<"w", "h", "e", "n">>,
      <<"t", "h", "e", "n">>, <<"e", "l", "s", "e">>,
      <<"e", "n", "d">>, <<"d", "i", "s", "t", "i", "n", "c", "t">>,
      <<"h", "a", "v", "i", "n", "g">>, <<"l", "i", "k", "e">>,
      <<"i", "n">>, <<"b", "e", "t", "w", "e", "e", "n">>,
      <<"u", "n", "i", "o", "n">>, <<"a", "l", "l">> }

extract_attributes(sql) ==
    SelectSeq(FindTokens(Lower(sql), 1), LAMBDA t : t \notin reserved)

\* The shared attributes over the attributes of the generated query.
lexical_accuracy_over_generated(golden_sql, generated_sql) ==
    LET attrs_gold == Range(extract_attributes(golden_sql))
        attrs_gen == Range(extract_attributes(generated_sql))
    IN  IF attrs_gold = {} THEN Zero
        ELSE Frac(Cardinality(attrs_gold \cap attrs_gen),
                  Max(1, Cardinality(attrs_gen)))

lexical_accuracy(golden_sql, generated_sql) ==
    LET attrs_gold == Range(extract_attributes(golden_sql))
        attrs_gen == Range(extract_attributes(generated_sql))
    IN  IF attrs_gold = {} THEN Zero
        ELSE Frac(Cardinality(attrs_gold \cap attrs_gen), Cardinality(attrs_gold))

MaxAttrLen == 3
AttrAlphabet == {"a", "s", " ", "1"}
\* Longer texts: a keyword next to attributes, a repeated attribute.
AttrSamples ==
    { <<"a", " ", "a", "s", " ", "s">>,
      <<"s", " ", "a", "s", " ", "a">>,
      <<"a", " ", "a", " ", "s", "1">>,
      <<"A", " ", "a", "s", " ", "_">> }
AttrInputs == SeqsUpTo(AttrAlphabet, MaxAttrLen) \cup AttrSamples

AttrInit ==
    /\ attr_gold \in AttrInputs
    /\ attr_gen \in AttrInputs
    /\ lex_acc = Zero
    /\ attr_pc = "start"

AttrIdle ==
    /\ attr_gold = <<>>
    /\ attr_gen = <<>>
    /\ lex_acc = Zero
    /\ attr_pc = "idle"

ComputeLexicalAccuracy ==
    /\ attr_pc = "start"
    /\ lex_acc' = lexical_accuracy(attr_gold, attr_gen)
    /\ attr_pc' = "done"
    /\ UNCHANGED <<attr_gold, attr_gen>>
    /\ AttrFrame

(***************************************************************************)
(* extract_tables, extract_joins and build_graph on one query, called on   *)
(* the query as written or, as evaluate_structural_metrics does, on its    *)
(* normalized form.                                                        *)
(***************************************************************************)
MaxChain == 2
NoQuery == [aliased |-> FALSE, from |-> "t", joins |-> <<>>, where |-> FALSE]

ExtractInit ==
    /\ ex_query \in QuerySpecsUpTo(MaxChain)
    /\ ex_pipeline \in BOOLEAN
    /\ ex_tables = <<>>
    /\ ex_joins = <<>>
    /\ ex_graph = EmptyGraph
    /\ ex_pc = "start"

ExtractIdle ==
    /\ ex_query = NoQuery
    /\ ex_pipeline = FALSE
    /\ ex_tables = <<>>
    /\ ex_joins = <<>>
    /\ ex_graph = EmptyGraph
    /\ ex_pc = "idle"

\* The text the three functions receive.
ExtractArg ==
    IF ex_pipeline THEN struct_normalize_tokens(Render(ex_query))
    ELSE Render(ex_query)

ComputeExtract ==
    /\ ex_pc = "start"
    /\ ex_tables' = extract_tables(ExtractArg)
    /\ ex_joins' = extract_joins(ExtractArg)
    /\ ex_graph' = build_graph(ExtractArg)
    /\ ex_pc' = "done"
    /\ UNCHANGED <<ex_query, ex_pipeline>>
    /\ ExtractFrame

(***************************************************************************)
(* The specifications.                                                     *)
(***************************************************************************)
InitSem == SemInit /\ ExecIdle /\ NormIdle /\ LevIdle /\ StructIdle /\ RunIdle
    /\ AttrIdle /\ ExtractIdle
SemNext == ComputeSemantic
SpecSem == InitSem /\ [][SemNext]_vars

InitExec == SemIdle /\ ExecInit /\ NormIdle /\ LevIdle /\ StructIdle /\ RunIdle
    /\ AttrIdle /\ ExtractIdle
SpecExec == InitExec /\ [][ExecNext]_vars

InitNorm == SemIdle /\ ExecIdle /\ NormInit /\ LevIdle /\ StructIdle /\ RunIdle
    /\ AttrIdle /\ ExtractIdle
NormNext == ComputeNormalize
SpecNorm == InitNorm /\ [][NormNext]_vars

InitLev == SemIdle /\ ExecIdle /\ NormIdle /\ LevInit /\ StructIdle /\ RunIdle
    /\ AttrIdle /\ ExtractIdle
LevNext == ComputeLevenshtein
SpecLev == InitLev /\ [][LevNext]_vars

InitStruct == SemIdle /\ ExecIdle /\ NormIdle /\ LevIdle /\ StructInit /\ RunIdle
    /\ AttrIdle /\ ExtractIdle
StructNext == ComputeStructural
SpecStruct == InitStruct /\ [][StructNext]_vars

InitRun == SemIdle /\ ExecIdle /\ NormIdle /\ LevIdle /\ StructIdle /\ RunInit
    /\ AttrIdle /\ ExtractIdle
RunNext ==
    \/ RunSkip
    \/ RunRecord
    \/ RunAbort
    \/ RunReport
SpecRun == InitRun /\ [][RunNext]_vars

InitAttr ==
    /\ SemIdle /\ ExecIdle /\ NormIdle /\ LevIdle /\ StructIdle /\ RunIdle
    /\ AttrInit /\ ExtractIdle
AttrNext == ComputeLexicalAccuracy
SpecAttr == InitAttr /\ [][AttrNext]_vars

InitExtract ==
    /\ SemIdle /\ ExecIdle /\ NormIdle /\ LevIdle /\ StructIdle /\ RunIdle
    /\ AttrIdle /\ ExtractInit
ExtractNext == ComputeExtract
SpecExtract == InitExtract /\ [][ExtractNext]_vars

(***************************************************************************)
(* The claims.                                                             *)
(***************************************************************************)

\* C1 (as amended): execution_accuracy returns 1 if and only if both
\* executions succeeded and the two row lists are equal as lists (the same
\* rows, in the same order, with the same multiplicities); it returns 0
\* otherwise, including whenever either side is the failure marker.
C1_ExactListMatch ==
    sem_pc = "done" =>
        /\ exe_acc \in {0, 1}
        /\ exe_acc = 1 <=>
              /\ result_gold.ok
              /\ result_gen.ok
              /\ Len(result_gold.rows) = Len(result_gen.rows)
              /\ \A i \in 1..Len(result_gold.rows) :
                    result_gold.rows[i] = result_gen.rows[i]

\* C1, witness: gold rows [(1,x),(2,y)] and gen rows [(2,y),(1,x)] were
\* compared, and the accuracy is 0.
C1_Witness ==
    /\ sem_pc = "done"
    /\ result_gold = Rows(<< <<1, "x">>, <<2, "y">> >>)
    /\ result_gen = Rows(<< <<2, "y">>, <<1, "x">> >>)
    /\ exe_acc = 0

\* C1 (as claimed): execution_accuracy returns 1 if and only if both
\* executions succeeded and their row collections are equal as sets,
\* disregarding row order and duplicate rows.
C1_SetEquality ==
    sem_pc = "done" =>
        (exe_acc = 1 <=>
            /\ result_gold.ok
            /\ result_gen.ok
            /\ PySet(result_gold) = PySet(result_gen))

\* The golden pair (a, b) or its reverse (b, a) is among the pairs.
PairOrReverseIn(j, joins) ==
    \E k \in 1..Len(joins) :
        \/ joins[k] = j
        \/ joins[k] = PyTuple(<<j.val[2], j.val[1]>>)

\* C2 (as claimed): join_correctness counts a golden join pair as matched
\* whenever the pair or its reverse is among the generated query's join
\* pairs, and returns matched/total.
C2_ReversedPairsMatch ==
    (struct_pc = "done" /\ joins_gold # <<>>) =>
        FracEq(join_acc,
               Frac(Cardinality({k \in 1..Len(joins_gold) :
                                    PairOrReverseIn(joins_gold[k], joins_gen)}),
                    Len(joins_gold)))

\* C3 (as claimed): graph_similarity is the Jaccard index of the two join
\* graphs' edge sets with each edge an unordered pair of nodes, and 1.0 when
\* neither graph has an edge.
C3_UnorderedJaccard ==
    struct_pc = "done" =>
        LET E1 == build_graph(GoldArg).edges
            E2 == build_graph(GenArg).edges
        IN  FracEq(graph_sim,
                   IF E1 = {} /\ E2 = {} THEN One
                   ELSE Round4(Cardinality(E1 \cap E2), Cardinality(E1 \cup E2)))

\* C4 (as claimed): both normalizers are idempotent on every input string.
C4_Idempotent ==
    norm_pc = "done" =>
        /\ norm_lex2 = norm_lex1
        /\ norm_struct2 = norm_struct1

\* C5 (as claimed): no run loop aborts mid-corpus: a run that ends in an
\* error has been through every generated entry, each one recorded or
\* skipped.
C5_NeverAbortsMidCorpus ==
    run_status = "error" =>
        /\ idx > Len(generated)
        /\ Len(outcomes) = Len(generated)

\* C6 (as claimed): when no generated entry joins to a golden query, the
\* run of every engine ends in an error and writes no report.
C6_EmptyRunIsError ==
    (run_status \in {"done", "error"} /\ results = <<>>
        /\ idx > Len(generated)) =>
        /\ run_status = "error"
        /\ ~report_written

\* C7 (as claimed): an entry is skipped exactly when its question_id has no
\* golden counterpart, and each skip emits exactly one warning.
C7_LookupMissWarned ==
    /\ \A i \in 1..Len(outcomes) :
          outcomes[i] = "skipped" <=>
              ~golden_map[generated[i].question_id].present
    /\ warnings = Cardinality({i \in 1..Len(outcomes) : outcomes[i] = "skipped"})

\* C8: every call of execute_query ends with a list of rows or the failure
\* marker, no exception leaves it, the connection and the cursor it opened
\* are closed on every exit path (return, and exception on the way to the
\* handler), and no connection is open between two calls.
C8_ExecuteQuerySafe ==
    /\ exec_pc # "propagated"
    /\ conn \in {0, 1} /\ cursor \in {0, 1}
    /\ exec_pc \in {"idle", "returned", "except", "connect"} =>
          (conn = 0 /\ cursor = 0)
    /\ exec_pc = "returned" =>
          /\ exec_ret \in ExecutionResults
          /\ exec_raised = "none"
          /\ (IsNone(exec_ret) \/ exec_ret = Rows(exec_rows))

\* C8, witness: a second call has returned the failure marker.
C8_Witness ==
    /\ exec_pc = "returned"
    /\ exec_calls = 2
    /\ IsNone(exec_ret)
    /\ conn = 0

HasJoin(toks) == Kw("join") \in Range(toks)

\* C9 (as claimed): a golden SQL with no JOIN against a generated SQL with a
\* JOIN, whatever the form of its condition, has join correctness 0.0.
C9_NoJoinAgainstJoin ==
    (struct_pc = "done" /\ ~HasJoin(sql_gold) /\ HasJoin(sql_gen)) =>
        FracEq(join_acc, Zero)

\* C10 (as amended): levenshtein_similarity(a, a) is 1.0 for every
\* non-empty string a and 0.0 when either string is empty; for non-empty
\* strings it is 1 - editDistance(a, b) / max(len(a), len(b)), in [0, 1].
C10_LevenshteinSimilarity ==
    lev_pc = "done" =>
        IF lev_a = <<>> \/ lev_b = <<>>
        THEN FracEq(lev_sim, Zero)
        ELSE /\ lev_sim.d > 0
             /\ lev_a = lev_b => FracEq(lev_sim, One)
             /\ FracLeq(Zero, lev_sim) /\ FracLeq(lev_sim, One)
             /\ FracEq(lev_sim,
                       Frac(Max(Len(lev_a), Len(lev_b))
                                - levenshtein_distance(lev_a, lev_b),
                            Max(Len(lev_a), Len(lev_b))))

\* C10, witness: two non-empty strings at distance 2, of lengths 2 and 3,
\* were compared.
C10_Witness ==
    /\ lev_pc = "done"
    /\ lev_a = <<"a", "b">>
    /\ lev_b = <<"b", "a", "b">>
    /\ FracEq(lev_sim, Frac(2, 3))

\* C10 (as claimed): identical strings always score 1.0.
C10_IdenticalAlwaysOne ==
    (lev_pc = "done" /\ lev_a = lev_b) => FracEq(lev_sim, One)

\* The attribute set of a text: duplicates and order ignored.
AttributeSet(sql) == Range(extract_attributes(sql))

\* C11 (amended): attribute sets hold no reserved keyword; with a non-empty
\* golden attribute set, lexical_accuracy is the share of the golden
\* attributes found in the generated set, hence 1.0 when the generated set
\* is a superset and 0.0 when the sets are disjoint; with an empty golden
\* attribute set it is 0.0, whatever the generated set.
C11_AttributeAccuracy ==
    attr_pc = "done" =>
        LET G == AttributeSet(attr_gold)
            N == AttributeSet(attr_gen)
        IN  /\ G \cap reserved = {}
            /\ N \cap reserved = {}
            /\ (G # {} /\ G \subseteq N) => FracEq(lex_acc, One)
            /\ (G # {} /\ G \cap N = {}) => FracEq(lex_acc, Zero)
            /\ G # {} =>
                   FracEq(lex_acc, Frac(Cardinality(G \cap N), Cardinality(G)))
            /\ G = {} => FracEq(lex_acc, Zero)

\* A golden text with a keyword, a repeated attribute set covered by a
\* larger generated set: the accuracy is 1.0.
C11_Witness ==
    /\ attr_pc = "done"
    /\ attr_gold = <<"a", " ", "a", "s", " ", "s">>
    /\ attr_gen = <<"s", " ", "a", "s", " ", "a">>
    /\ AttributeSet(attr_gold) = {<<"a">>, <<"s">>}
    /\ FracEq(lex_acc, One)

\* C11 as stated: 1.0 whenever the generated attribute set is a superset of
\* the golden one, and 0.0 whenever the sets are disjoint and the golden one
\* is non-empty.
C11_SupersetAlwaysOne ==
    attr_pc = "done" =>
        LET G == AttributeSet(attr_gold)
            N == AttributeSet(attr_gen)
        IN  /\ G \subseteq N => FracEq(lex_acc, One)
            /\ (G # {} /\ G \cap N = {}) => FracEq(lex_acc, Zero)

\* C12: partial_execution_accuracy is |set(gold) & set(gen)| / |set(gold)|
\* when gold is a non-empty result and gen succeeded; 1.0 when gold is empty
\* or failed and gen is empty or failed; 0.0 when gold is empty or failed and
\* gen is a non-empty result; 0.0 when gen failed and gold is a non-empty
\* result; and always within [0,1].
C12_PartialExecutionAccuracy ==
    sem_pc = "done" =>
        LET G == PySet(result_gold)
            N == PySet(result_gen)
            goldVoid == IsNone(result_gold) \/ result_gold.rows = <<>>
            genVoid == IsNone(result_gen) \/ result_gen.rows = <<>>
        IN  /\ (~goldVoid /\ ~IsNone(result_gen)) =>
                   FracEq(pexec, Frac(Cardinality(G \cap N), Cardinality(G)))
            /\ (goldVoid /\ genVoid) => FracEq(pexec, One)
            /\ (goldVoid /\ ~genVoid) => FracEq(pexec, Zero)
            /\ (~goldVoid /\ IsNone(result_gen)) => FracEq(pexec, Zero)
            /\ FracLeq(Zero, pexec)
            /\ FracLeq(pexec, One)

\* Three golden rows, two generated rows, one of them golden: 1/3.
C12_Witness ==
    /\ sem_pc = "done"
    /\ result_gold = Rows(<< <<1, "x">>, <<2, "y">>, <<3, "z">> >>)
    /\ result_gen = Rows(<< <<1, "x">>, <<4, "w">> >>)
    /\ FracEq(pexec, Frac(1, 3))

\* C15: the three semantic metrics agree on every pair of outcomes: when
\* execution_accuracy is 1, partial_execution_accuracy is 1.0 and
\* execution_result_distance is 0.0; when either side failed,
\* execution_accuracy is 0 and execution_result_distance is 1.0; and
\* execution_result_distance is symmetric and within [0,1].
C15_MetricsCoherent ==
    sem_pc = "done" =>
        /\ exe_acc = 1 => (FracEq(pexec, One) /\ FracEq(erd, Zero))
        /\ (IsNone(result_gold) \/ IsNone(result_gen)) =>
               (exe_acc = 0 /\ FracEq(erd, One))
        /\ FracEq(erd, execution_result_distance(result_gen, result_gold))
        /\ FracLeq(Zero, erd)
        /\ FracLeq(erd, One)

\* Two identical lists of rows, a repeated row among them: the exact match
\* is 1, the partial accuracy 1.0 and the distance 0.0.
C15_Witness ==
    /\ sem_pc = "done"
    /\ result_gold = Rows(<< <<3, "z">>, <<3, "z">>, <<2, "y">> >>)
    /\ result_gen = result_gold
    /\ exe_acc = 1
    /\ FracEq(pexec, One)
    /\ FracEq(erd, Zero)

\* The table a node name denotes in the query: the table of the reference
\* that is qualified with this name, or the name itself.
Denoted(qs, n) ==
    LET R == {i \in 0..Len(qs.joins) : RefQual(qs, i) = n}
    IN  IF R = {} THEN n ELSE RefTable(qs, CHOOSE i \in R : TRUE)

\* C13 (not upheld by the code): on a normalized query, the nodes of the
\* graph are table names of the query only, and no edge joins two names
\* that denote the same table.
C13_CanonicalNodesNoSelfEdge ==
    (ex_pc = "done" /\ ex_pipeline) =>
        /\ Range(ex_graph.nodes) \subseteq
               {RefTable(ex_query, i) : i \in 0..Len(ex_query.joins)}
        /\ \A e \in ex_graph.edges :
               \A u \in e, v \in e :
                   u # v => Denoted(ex_query, u) # Denoted(ex_query, v)

\* The pairs of the qualified equalities of the query, join by join.
RECURSIVE ExpectedPairs(_, _)
ExpectedPairs(qs, i) ==
    IF i > Len(qs.joins) THEN <<>>
    ELSE LET prev == PyStr(RefQual(qs, i - 1))
             cur == PyStr(RefQual(qs, i))
             form == qs.joins[i].form
             here == CASE form = "fwd" -> <<PyTuple(<<prev, cur>>)>>
                       [] form = "rev" -> <<PyTuple(<<cur, prev>>)>>
                       [] form = "two" -> <<PyTuple(<<prev, cur>>),
                                            PyTuple(<<prev, cur>>)>>
                       [] OTHER -> <<>>
         IN  here \o ExpectedPairs(qs, i + 1)

\* C14 (not upheld by the code): extract_joins returns, in order, one pair
\* for every qualified equality of every ON block of the query.
C14_OnePairPerEquality ==
    ex_pc = "done" => ex_joins = ExpectedPairs(ex_query, 1)

====
